---- MODULE Spec2Model ----
(***************************************************************************)
(* Women-safety backend: device event ingestion, distress scoring and the  *)
(* alert life cycle.                                                       *)
(*                                                                         *)
(* Two variants of the Flask application share one database schema         *)
(* (Device, SensorEvent, Alert, Evidence): the monolith src/run.py and the *)
(* blueprints src/backend/devices.py + src/backend/alerts.py.  The         *)
(* variable app records which of the two is running.  A third variant,     *)
(* src/backend/api, has routes of its own for alerts (SpecApi).            *)
(*                                                                         *)
(* Numbers: heart rate in bpm, temperature in tenths of a degree Celsius,  *)
(* classifier confidence in sixtieths (54 is 0.9, 50 is 5/6), heart-rate   *)
(* and temperature scores in tenths, distress score in six-hundredths      *)
(* (300 is 0.5, 480 is 0.8).                                               *)
(***************************************************************************)
EXTENDS Integers, Sequences, FiniteSets, TLC

\* ------------------------------------------------------------------ bounds
MaxAlerts == 2
MaxEvents == 2
MaxFleetEvents == 4
MaxConcEvents == 3
MaxScoreEvents == 1
MaxHybridEvents == 1
MaxCommands == 4
MaxGpsEvents == 2
MaxRangeEvents == 1

\* Python None for an absent or unparsable form field / column value.
None == 9999

\* --------------------------------------------------------------- input sets
UIDs        == {"d1", "dX"}
Apps        == {"run", "devices"}
HeartRates  == {None, 110}
Temperatures == {390}
GpsFixes    == {<<None, None>>, <<1, 2>>}
ManualSos   == {None, 1}
Roles       == {"GUARDIAN", "POLICE", "ADMIN"}
Statuses    == {"NEW", "ACKNOWLEDGED", "RESOLVED", "FALSE_ALARM", "IN_PROGRESS"}

\* What the multipart body carries under 'audio', and what the environment
\* does with it: predict_stress either returns a prediction or an error
\* dictionary, and writing the evidence file either succeeds or raises.
NoAudio == [present |-> FALSE, result |-> [error |-> TRUE, label |-> "none", confidence |-> 0],
            save_ok |-> TRUE]
Audio(r, s) == [present |-> TRUE, result |-> r, save_ok |-> s]
Stressed90 == [error |-> FALSE, label |-> "stressed", confidence |-> 54]
StressedFiveSixths == [error |-> FALSE, label |-> "stressed", confidence |-> 50]
Normal90 == [error |-> FALSE, label |-> "normal", confidence |-> 54]
ModelError == [error |-> TRUE, label |-> "none", confidence |-> 0]
Audios == {NoAudio, Audio(Stressed90, TRUE), Audio(Stressed90, FALSE), Audio(ModelError, TRUE)}

\* Inputs around the thresholds of the distress score.
ScoreHeartRates == {None, 75, 95, 100, 101, 130}
ScoreTemperatures == {None, 368, 385, 386}
ScoreAudios == {NoAudio, Audio(Stressed90, TRUE), Audio(StressedFiveSixths, TRUE),
                Audio(Normal90, TRUE), Audio(ModelError, TRUE)}

\* devices and command names of the command queue
CommandDevices == {"esp1", "esp2"}
Commands == {"activate_buzzer", "fetch_gps"}

VARIABLES
    app,       \* which application serves the requests
    devices,   \* Device rows, id = index
    events,    \* number of SensorEvent rows per device id (no handler reads a row back)
    alerts,    \* Alert rows, id = index; rows are never deleted
    evidence,  \* Evidence rows
    procs,     \* request handlers in flight (threaded server), see recv_begin
    last,      \* the request answered last and its response
    pending_commands,  \* CommandSender.pending_commands: per device_id whether the
                       \* dictionary has the key, and the list under it
    queued,    \* history: every command queued for a device, in order
    delivered  \* history: every command returned for a device, in order

vars == <<app, devices, events, alerts, evidence, procs, last,
         pending_commands, queued, delivered>>

\* ------------------------------------------------------------------ helpers
\* request.form.get(name, type=float) or 0
OrZero(x) == IF x = None \/ x = 0 THEN 0 ELSE x

\* Python truthiness of an optional number
Truthy(x) == x # None /\ x # 0

\* Total length of the sequences f[d], d in S
RECURSIVE SumLen(_, _)
SumLen(f, S) ==
    IF S = {} THEN 0
    ELSE LET d == CHOOSE x \in S : TRUE IN Len(f[d]) + SumLen(f, S \ {d})

\* Device.query.filter_by(device_uid=uid).first(): the row id, 0 when absent
DeviceByUid(uid) ==
    IF \E i \in 1..Len(devices) : devices[i].device_uid = uid
    THEN CHOOSE i \in 1..Len(devices) : devices[i].device_uid = uid
    ELSE 0

\* A lookup that forgets the device: the first NEW alert of any device.
ExistingAlertAnyDevice(d) ==
    IF \E i \in 1..Len(alerts) : alerts[i].status = "NEW"
    THEN CHOOSE i \in 1..Len(alerts) :
             /\ alerts[i].status = "NEW"
             /\ \A j \in 1..Len(alerts) : alerts[j].status = "NEW" => i <= j
    ELSE 0

\* Alert.query.filter_by(device_id=d, status='NEW').first(): 0 when absent
ExistingAlert(d) ==
    IF \E i \in 1..Len(alerts) : alerts[i].device_id = d /\ alerts[i].status = "NEW"
    THEN CHOOSE i \in 1..Len(alerts) :
             /\ alerts[i].device_id = d /\ alerts[i].status = "NEW"
             /\ \A j \in 1..Len(alerts) :
                    (alerts[j].device_id = d /\ alerts[j].status = "NEW") => i <= j
    ELSE 0

\* SensorEvent rows of all devices
RECURSIVE SumTo(_, _)
SumTo(f, n) == IF n = 0 THEN 0 ELSE f[n] + SumTo(f, n - 1)
NumEvents == SumTo(events, Len(devices))

\* f"{uid}_{timestamp}.wav"; the timestamp has a resolution of one second and
\* the events of one device are taken to arrive in different seconds
NoFile == <<0, 0>>
FileName(d) == <<d, events[d] + 1>>

\* A handler that keeps its initial dictionary when the model call fails.
AiResultDefault(a, audio) ==
    IF audio.present /\ ~audio.result.error
    THEN [label |-> audio.result.label, confidence |-> audio.result.confidence]
    ELSE [label |-> "normal", confidence |-> 0]

\* The dictionary the handler holds after the audio branch.
AiResult(a, audio) ==
    IF ~audio.present THEN [label |-> "normal", confidence |-> 0]
    ELSE IF audio.result.error
         THEN IF a = "devices" THEN [label |-> "unknown", confidence |-> 0]
              ELSE [label |-> "none", confidence |-> None]
         ELSE [label |-> audio.result.label, confidence |-> audio.result.confidence]

\* ai_error of backend/devices.py; run.py has no such variable
AiError(a, audio) == a = "devices" /\ audio.present /\ audio.result.error

\* A scoring that counts a failed model call as a certain detection.
AiScoreFailedAsStress(ai) ==
    IF ai.label = "stressed" THEN ai.confidence
    ELSE IF ai.label \in {"none", "unknown"} THEN 60 ELSE 0

AiScore(ai) == IF ai.label = "stressed" THEN ai.confidence ELSE 0

HrScore(a, hr) ==
    IF hr > 100 THEN 10
    ELSE IF a = "devices" /\ hr > 90 THEN 5 ELSE 0

TempScore(temp) == IF temp > 385 THEN 10 ELSE 0

\* A score that gives the heart rate the weight 0.6.
DistressScoreHeartFirst(a, ai, hr, temp) ==
    AiScore(ai) * 3 + HrScore(a, hr) * 36 + TempScore(temp) * 6

\* distress_score = ai_score * 0.6 + hr_score * 0.3 + temp_score * 0.1, in
\* six-hundredths
DistressScore(a, ai, hr, temp) ==
    AiScore(ai) * 6 + HrScore(a, hr) * 18 + TempScore(temp) * 6

IsStressed(score, manual_sos) == score > 300 \/ manual_sos

\* A handler that knows one automatic reason only.
ReasonAuto(a, audio, manual_sos) == "AUTO_STRESS"

Reason(a, audio, manual_sos) ==
    IF manual_sos THEN "MANUAL_SOS"
    ELSE IF AiError(a, audio) THEN "VITALS_ANOMALY"
    ELSE "AUTO_STRESS"

Severity(score) == IF score > 480 THEN "HIGH" ELSE "MEDIUM"

Handlers == {1, 2}
Idle == [pc |-> "idle", d |-> 0, manual_sos |-> FALSE, score |-> 0, existing |-> 0]

NoLast == [op |-> "none", code |-> 0, device_id |-> 0,
           manual_sos |-> FALSE, has_audio |-> FALSE, model_called |-> FALSE,
           ai_failed |-> FALSE, save_failed |-> FALSE, streak |-> 0,
           alert_triggered |-> FALSE, distress_score |-> 0,
           existing |-> 0, created |-> 0, audio_filename |-> NoFile,
           alert_id |-> 0, role |-> "none", status |-> "none",
           heart_rate |-> 0, temperature |-> 0,
           ai_label |-> "none", ai_confidence |-> 0,
           lat |-> None, lng |-> None]

\* Qualifying events answered in a row for device d, this one included (at most 2
\* are counted): 0 when this event does not qualify.
Streak(d, stressed) ==
    IF ~stressed THEN 0
    ELSE IF last.op = "receive_event" /\ last.code = 200 /\ last.device_id = d
            /\ last.alert_triggered /\ last.streak >= 1
         THEN 2 ELSE 1

\* --------------------------------------------------------------------- Init
\* CommandSender.__init__: no device has a queue; nothing queued or handed out
InitSender ==
    /\ pending_commands = [d \in CommandDevices |-> [has_key |-> FALSE, list |-> <<>>]]
    /\ queued = [d \in CommandDevices |-> <<>>]
    /\ delivered = [d \in CommandDevices |-> <<>>]

\* The database holds the registered devices and nothing else.
InitWith(uids) ==
    /\ app \in Apps
    /\ devices = [i \in 1..Len(uids) |->
                      [device_uid |-> uids[i], last_lat |-> None, last_lng |-> None]]
    /\ events = [i \in 1..Len(uids) |-> 0]
    /\ alerts = <<>>
    /\ evidence = <<>>
    /\ procs = [h \in Handlers |-> Idle]
    /\ last = NoLast
    /\ InitSender

Init == InitWith(<<"d1">>)

\* ------------------------------------------------------------------ actions
\* if not existing: db.session.add(Alert(...)); an open alert is left alone
AlertsWith(existing, alert) ==
    IF existing = 0 THEN Append(alerts, alert) ELSE alerts

\* A handler that keeps a sensor event only when it qualifies for an alert.
AddSensorEventWhenStressed(d, stressed) ==
    IF stressed THEN [events EXCEPT ![d] = @ + 1] ELSE events

\* db.session.add(SensorEvent(device_id=device.id, ...)), committed at the end
\* of the request whatever is_stressed is
AddSensorEvent(d, stressed) == [events EXCEPT ![d] = @ + 1]

\* POST /api/device/event
receive_event(uid, hr_in, temp_in, lat, lng, sos_in, audio) ==
    LET d          == DeviceByUid(uid)
        hr         == OrZero(hr_in)
        temp       == OrZero(temp_in)
        manual_sos == sos_in = 1
        ai         == AiResult(app, audio)
        fname      == IF audio.present THEN FileName(d) ELSE NoFile
        score      == DistressScore(app, ai, hr, temp)
        stressed   == IsStressed(score, manual_sos)
        existing   == ExistingAlert(d)
        creates    == stressed /\ existing = 0
        located    == IF Truthy(lat) /\ Truthy(lng)
                      THEN [devices EXCEPT ![d].last_lat = lat, ![d].last_lng = lng]
                      ELSE devices
        base       == [NoLast EXCEPT !.op = "receive_event",
                                     !.device_id = d, !.manual_sos = manual_sos,
                                     !.lat = lat, !.lng = lng,
                                     !.has_audio = audio.present,
                                     !.model_called = audio.present,
                                     !.ai_failed = audio.present /\ audio.result.error,
                                     !.save_failed = audio.present /\ ~audio.save_ok]
    IN
    IF d = 0
    THEN /\ last' = [NoLast EXCEPT !.op = "receive_event", !.code = 404]
         /\ UNCHANGED <<pending_commands, queued, delivered, app, devices, events, alerts, evidence, procs>>
    ELSE IF app = "run" /\ audio.present /\ ~audio.save_ok
    THEN \* audio_file.save raises: the request ends in a 500, nothing is committed
         /\ last' = [base EXCEPT !.code = 500]
         /\ UNCHANGED <<pending_commands, queued, delivered, app, devices, events, alerts, evidence, procs>>
    ELSE /\ devices' = located
         /\ events' = AddSensorEvent(d, stressed)
         /\ alerts' = IF stressed
                      THEN AlertsWith(existing,
                               [device_id |-> d,
                                reason |-> Reason(app, audio, manual_sos),
                                status |-> "NEW", severity |-> Severity(score),
                                gps_lat |-> lat, gps_lng |-> lng])
                      ELSE alerts
         /\ evidence' = IF creates /\ audio.present
                        THEN Append(evidence,
                                 [alert_id |-> Len(alerts) + 1, file_type |-> "AUDIO",
                                  file_path |-> fname])
                        ELSE evidence
         /\ last' = [base EXCEPT !.code = 200,
                                 !.alert_triggered = stressed,
                                 !.streak = Streak(d, stressed),
                                 !.distress_score = score,
                                 !.existing = existing,
                                 !.created = IF creates THEN Len(alerts) + 1 ELSE 0,
                                 !.audio_filename = fname,
                                 !.heart_rate = hr, !.temperature = temp,
                                 !.ai_label = ai.label, !.ai_confidence = ai.confidence]
         /\ UNCHANGED <<pending_commands, queued, delivered, app, procs>>

\* An update that stores a requested status only when it is one of the four
\* names of the alert life cycle.
StoredStatusChecked(old, requested) ==
    IF requested \in {"NEW", "ACKNOWLEDGED", "RESOLVED", "FALSE_ALARM"}
    THEN requested ELSE old

\* request.get_json().get('status', a.status): the body's value, whatever it
\* is, or the current one when the body has no status key.
StoredStatus(old, requested) ==
    IF requested = "absent" THEN old ELSE requested

\* A status update that does not look at the caller's role.
update_status_any_role(alert_id, role, status) ==
    LET base == [NoLast EXCEPT !.op = "update_status", !.role = role]
    IN
    IF alert_id \notin 1..Len(alerts)
    THEN /\ last' = [base EXCEPT !.code = 404]
         /\ UNCHANGED <<pending_commands, queued, delivered, app, devices, events, alerts, evidence, procs>>
    ELSE /\ alerts' = [alerts EXCEPT ![alert_id].status = StoredStatus(@, status)]
         /\ last' = [base EXCEPT !.code = 200, !.alert_id = alert_id, !.status = status]
         /\ UNCHANGED <<pending_commands, queued, delivered, app, devices, events, evidence, procs>>

\* PATCH /api/alerts/<alert_id>/status
update_status(alert_id, role, status) ==
    LET base == [NoLast EXCEPT !.op = "update_status", !.role = role]
    IN
    IF role \notin {"POLICE", "ADMIN"}
    THEN /\ last' = [base EXCEPT !.code = 403]
         /\ UNCHANGED <<pending_commands, queued, delivered, app, devices, events, alerts, evidence, procs>>
    ELSE IF alert_id \notin 1..Len(alerts)
    THEN /\ last' = [base EXCEPT !.code = 404]
         /\ UNCHANGED <<pending_commands, queued, delivered, app, devices, events, alerts, evidence, procs>>
    ELSE /\ alerts' = [alerts EXCEPT ![alert_id].status = StoredStatus(@, status)]
         /\ last' = [base EXCEPT !.code = 200, !.alert_id = alert_id, !.status = status]
         /\ UNCHANGED <<pending_commands, queued, delivered, app, devices, events, evidence, procs>>

Bounded(maxEvents, maxAlerts) ==
    NumEvents' <= maxEvents /\ Len(alerts') <= maxAlerts

\* One device, every kind of event.
Next ==
    \/ \E uid \in UIDs, hr \in HeartRates, temp \in Temperatures,
          gps \in GpsFixes, sos \in ManualSos, audio \in Audios :
          /\ receive_event(uid, hr, temp, gps[1], gps[2], sos, audio)
          /\ Bounded(MaxEvents, MaxAlerts)
    \/ \E id \in 1..MaxAlerts, status \in {"ACKNOWLEDGED", "RESOLVED"} :
          update_status(id, "POLICE", status)

Spec == Init /\ [][Next]_vars

\* Two devices, manual SOS and quiet events only, more of them.
InitFleet == InitWith(<<"d1", "d2">>)

NextFleet ==
    \/ \E uid \in {"d1", "d2"}, sos \in ManualSos :
          /\ receive_event(uid, None, None, None, None, sos, NoAudio)
          /\ Bounded(MaxFleetEvents, MaxAlerts)
    \/ \E id \in 1..MaxAlerts, role \in Roles, status \in Statuses \cup {"absent"} :
          update_status(id, role, status)

SpecFleet == InitFleet /\ [][NextFleet]_vars

\* One device, events with vitals and audio around the score thresholds.
NextScore ==
    \E hr \in ScoreHeartRates, temp \in ScoreTemperatures, sos \in ManualSos,
       audio \in ScoreAudios :
       /\ receive_event("d1", hr, temp, None, None, sos, audio)
       /\ Bounded(MaxScoreEvents, MaxAlerts)

SpecScore == Init /\ [][NextScore]_vars

\* One device, events with and without coordinates, the coordinate 0 included.
GpsCoordinates == {None, 0, 1, 2}
NextGps ==
    \E lat \in GpsCoordinates, lng \in GpsCoordinates, sos \in ManualSos :
       /\ receive_event("d1", None, None, lat, lng, sos, NoAudio)
       /\ Bounded(MaxGpsEvents, MaxAlerts)
SpecGps == Init /\ [][NextGps]_vars

\* ------------------------------------------------------------ ai_engine
\* PhysiologicalThresholds (temperatures in tenths of a degree)
heart_rate_normal_min == 60
heart_rate_normal_max == 100
heart_rate_stress_threshold == 110
heart_rate_high_stress_threshold == 130
temperature_normal_min == 361
temperature_normal_max == 372
temperature_stress_threshold == 375
temperature_low_threshold == 355

\* An analyzer that scores moderate stress below mild stress.
analyze_heart_rate_dip(heart_rate) ==
    IF heart_rate < heart_rate_normal_min
    THEN [is_abnormal |-> TRUE, stress_level |-> "low_heart_rate", score |-> 3]
    ELSE IF heart_rate >= heart_rate_high_stress_threshold
    THEN [is_abnormal |-> TRUE, stress_level |-> "high_stress", score |-> 10]
    ELSE IF heart_rate >= heart_rate_stress_threshold
    THEN [is_abnormal |-> TRUE, stress_level |-> "moderate_stress", score |-> 3]
    ELSE IF heart_rate > heart_rate_normal_max
    THEN [is_abnormal |-> TRUE, stress_level |-> "mild_stress", score |-> 5]
    ELSE [is_abnormal |-> FALSE, stress_level |-> "normal", score |-> 0]

\* PhysiologicalAnalyzer.analyze_heart_rate; score in tenths
analyze_heart_rate(heart_rate) ==
    IF heart_rate < heart_rate_normal_min
    THEN [is_abnormal |-> TRUE, stress_level |-> "low_heart_rate", score |-> 3]
    ELSE IF heart_rate >= heart_rate_high_stress_threshold
    THEN [is_abnormal |-> TRUE, stress_level |-> "high_stress", score |-> 10]
    ELSE IF heart_rate >= heart_rate_stress_threshold
    THEN [is_abnormal |-> TRUE, stress_level |-> "moderate_stress", score |-> 7]
    ELSE IF heart_rate > heart_rate_normal_max
    THEN [is_abnormal |-> TRUE, stress_level |-> "mild_stress", score |-> 5]
    ELSE [is_abnormal |-> FALSE, stress_level |-> "normal", score |-> 0]

\* An analyzer whose normal band excludes its upper end.
analyze_temperature_open(temperature) ==
    IF temperature < temperature_low_threshold
    THEN [is_abnormal |-> TRUE, stress_level |-> "hypothermia_risk", score |-> 6]
    ELSE IF temperature >= temperature_stress_threshold
    THEN [is_abnormal |-> TRUE, stress_level |-> "elevated_temperature", score |-> 8]
    ELSE IF temperature >= temperature_normal_max
    THEN [is_abnormal |-> TRUE, stress_level |-> "mild_elevation", score |-> 4]
    ELSE IF temperature < temperature_normal_min
    THEN [is_abnormal |-> TRUE, stress_level |-> "slightly_low", score |-> 3]
    ELSE [is_abnormal |-> FALSE, stress_level |-> "normal", score |-> 0]

\* PhysiologicalAnalyzer.analyze_temperature; score in tenths
analyze_temperature(temperature) ==
    IF temperature < temperature_low_threshold
    THEN [is_abnormal |-> TRUE, stress_level |-> "hypothermia_risk", score |-> 6]
    ELSE IF temperature >= temperature_stress_threshold
    THEN [is_abnormal |-> TRUE, stress_level |-> "elevated_temperature", score |-> 8]
    ELSE IF temperature > temperature_normal_max
    THEN [is_abnormal |-> TRUE, stress_level |-> "mild_elevation", score |-> 4]
    ELSE IF temperature < temperature_normal_min
    THEN [is_abnormal |-> TRUE, stress_level |-> "slightly_low", score |-> 3]
    ELSE [is_abnormal |-> FALSE, stress_level |-> "normal", score |-> 0]

\* PhysiologicalAnalyzer.analyze_combined; combined_score and confidence in
\* hundredths (score * 0.6 + score * 0.4)
analyze_combined(heart_rate, temperature) ==
    LET hr_analysis    == analyze_heart_rate(heart_rate)
        temp_analysis  == analyze_temperature(temperature)
        combined_score == hr_analysis.score * 6 + temp_analysis.score * 4
    IN [heart_rate |-> hr_analysis, temperature |-> temp_analysis,
        combined_score |-> combined_score,
        stress_detected |-> combined_score >= 50,
        confidence |-> combined_score,
        alert_recommended |-> combined_score >= 70]

\* Outcome of the audio branch of analyze_multimodal: no audio given, the
\* extraction or the detector raised, or (prediction, confidence) with the
\* confidence in sixtieths.
NoAudioData == [given |-> FALSE, raised |-> FALSE, prediction |-> 0, confidence |-> 0]
AudioRaised == [given |-> TRUE, raised |-> TRUE, prediction |-> 0, confidence |-> 0]
Predicted(prediction, confidence) ==
    [given |-> TRUE, raised |-> FALSE, prediction |-> prediction, confidence |-> confidence]
FusionAudios ==
    {NoAudioData, AudioRaised, Predicted(1, 54), Predicted(1, 30), Predicted(0, 54),
     Predicted(0, 36)}
FusionHeartRates == {None, 50, 60, 75, 100, 102, 105, 110, 120, 130}
FusionTemperatures == {None, 350, 358, 361, 368, 372, 373, 375, 386}

\* results['audio_analysis'] / results['physiological_analysis'] when None
NoAudioAnalysis ==
    [present |-> FALSE, prediction |-> 0, confidence |-> 0, stress_detected |-> FALSE]
NoPhysiologicalAnalysis ==
    [present |-> FALSE, combined_score |-> 0, stress_detected |-> FALSE,
     confidence |-> 0, alert_recommended |-> FALSE,
     heart_rate |-> [is_abnormal |-> FALSE, stress_level |-> "", score |-> 0],
     temperature |-> [is_abnormal |-> FALSE, stress_level |-> "", score |-> 0]]

Abs(x) == IF x < 0 THEN -x ELSE x
Min(x, y) == IF x < y THEN x ELSE y

\* The audio modality's score in _fuse_predictions, in six-hundredths
AudioScore(audio_analysis) == audio_analysis.confidence * 10

\* HybridStressDetector._fuse_predictions with the weights 0.6 / 0.4 of
\* __init__: scores in six-hundredths, combined_score in six-thousandths,
\* confidence in 3,600,000ths (combined_score * (1 - min(std, 0.3))).
_fuse_predictions(audio_analysis, physiological_analysis) ==
    LET audio_score  == AudioScore(audio_analysis)
        physio_score == physiological_analysis.combined_score * 6
        both         == audio_analysis.present /\ physiological_analysis.present
        combined_score ==
            IF both THEN 6 * audio_score + 4 * physio_score
            ELSE IF audio_analysis.present THEN 10 * audio_score
            ELSE IF physiological_analysis.present THEN 10 * physio_score
            ELSE 0
        score_std == Abs(audio_score - physio_score) \div 2
    IN IF ~audio_analysis.present /\ ~physiological_analysis.present
       THEN [combined_score |-> 0, stress_detected |-> FALSE, confidence |-> 0]
       ELSE [combined_score |-> combined_score,
             stress_detected |-> combined_score >= 3000,
             confidence |-> IF both THEN combined_score * (600 - Min(score_std, 180))
                            ELSE combined_score * 600]

\* HybridStressDetector.analyze_multimodal: the returned results dictionary
MultimodalResults(audio, heart_rate, temperature) ==
    LET audio_analysis ==
            IF audio.given /\ ~audio.raised
            THEN [present |-> TRUE, prediction |-> audio.prediction,
                  confidence |-> audio.confidence,
                  stress_detected |-> audio.prediction = 1]
            ELSE NoAudioAnalysis
        physiological_analysis ==
            IF heart_rate # None /\ temperature # None
            THEN [present |-> TRUE] @@ analyze_combined(heart_rate, temperature)
            ELSE NoPhysiologicalAnalysis
        modalities_used ==
            (IF audio_analysis.present THEN {"audio"} ELSE {})
                \cup (IF physiological_analysis.present THEN {"physiological"} ELSE {})
        fused == IF modalities_used # {}
                 THEN _fuse_predictions(audio_analysis, physiological_analysis)
                 ELSE [combined_score |-> 0, stress_detected |-> FALSE, confidence |-> 0]
    IN [audio_analysis |-> audio_analysis,
        physiological_analysis |-> physiological_analysis,
        combined_score |-> fused.combined_score,
        stress_detected |-> fused.stress_detected,
        confidence |-> fused.confidence,
        modalities_used |-> modalities_used]

analyze_multimodal(audio, heart_rate, temperature) ==
    /\ last' = [op |-> "analyze_multimodal", audio |-> audio,
                heart_rate |-> heart_rate, temperature |-> temperature,
                result |-> MultimodalResults(audio, heart_rate, temperature)]
    /\ UNCHANGED <<pending_commands, queued, delivered, app, devices, events, alerts, evidence, procs>>

\* The detector next to the event endpoint: events without a manual trigger.
HybridEventAudios == {NoAudio, Audio(Normal90, TRUE), Audio(ModelError, TRUE), Audio(Stressed90, TRUE)}
NextHybrid ==
    \/ \E audio \in FusionAudios, hr \in FusionHeartRates, temp \in FusionTemperatures :
          analyze_multimodal(audio, hr, temp)
    \/ \E hr \in FusionHeartRates, temp \in FusionTemperatures, audio \in HybridEventAudios :
          /\ receive_event("d1", hr, temp, None, None, None, audio)
          /\ Bounded(MaxHybridEvents, MaxAlerts)
SpecHybrid == Init /\ [][NextHybrid]_vars

\* The same two operations with readings inside and outside the range a body
\* can produce (heart rate 0..220 bpm, temperature 30.0..45.0 degrees).
RangeHeartRates == {None, -5, 75, 220, 250}
RangeTemperatures == {None, 250, 300, 368, 450, 460}
NextRange ==
    \/ \E audio \in FusionAudios, hr \in RangeHeartRates, temp \in RangeTemperatures :
          analyze_multimodal(audio, hr, temp)
    \/ \E hr \in RangeHeartRates, temp \in RangeTemperatures, audio \in HybridEventAudios :
          /\ receive_event("d1", hr, temp, None, None, None, audio)
          /\ Bounded(MaxRangeEvents, MaxAlerts)
SpecRange == Init /\ [][NextRange]_vars

\* ------------------------------------------------ concurrent event handlers
\* The server answers requests on several threads; each request has its own
\* database session and sees what other sessions have committed.  The steps
\* below are receive_event cut at its two database round trips: the query
\* for a NEW alert and the commit.  Events here carry no vitals and no audio.
InFlight == Cardinality({h \in Handlers : procs[h].pc # "idle"})

\* Request parsing up to db.session.add(event).
recv_begin(h, uid, sos_in) ==
    LET d          == DeviceByUid(uid)
        manual_sos == sos_in = 1
        score      == DistressScore(app, AiResult(app, NoAudio), OrZero(None), OrZero(None))
    IN
    /\ procs[h].pc = "idle"
    /\ d # 0
    /\ procs' = [procs EXCEPT ![h] = [pc |-> "added", d |-> d, manual_sos |-> manual_sos,
                                      score |-> score, existing |-> 0]]
    /\ UNCHANGED <<pending_commands, queued, delivered, app, devices, events, alerts, evidence, last>>

\* Alert.query.filter_by(device_id=device.id, status='NEW').first()
recv_lookup(h) ==
    /\ procs[h].pc = "added"
    /\ IsStressed(procs[h].score, procs[h].manual_sos)
    /\ procs' = [procs EXCEPT ![h].pc = "looked", ![h].existing = ExistingAlert(procs[h].d)]
    /\ UNCHANGED <<pending_commands, queued, delivered, app, devices, events, alerts, evidence, last>>

\* The alert creation, db.session.commit() and the response.
recv_commit(h) ==
    LET p        == procs[h]
        stressed == IsStressed(p.score, p.manual_sos)
        creates  == stressed /\ p.existing = 0
    IN
    /\ p.pc = IF stressed THEN "looked" ELSE "added"
    /\ events' = AddSensorEvent(p.d, stressed)
    /\ alerts' = IF creates
                 THEN Append(alerts, [device_id |-> p.d,
                                      reason |-> Reason(app, NoAudio, p.manual_sos),
                                      status |-> "NEW", severity |-> Severity(p.score),
                                      gps_lat |-> None, gps_lng |-> None])
                 ELSE alerts
    /\ last' = [NoLast EXCEPT !.op = "receive_event", !.code = 200, !.device_id = p.d,
                              !.manual_sos = p.manual_sos, !.alert_triggered = stressed,
                              !.streak = Streak(p.d, stressed),
                              !.distress_score = p.score, !.existing = p.existing,
                              !.created = IF creates THEN Len(alerts) + 1 ELSE 0,
                              !.ai_label = AiResult(app, NoAudio).label,
                              !.ai_confidence = AiResult(app, NoAudio).confidence]
    /\ procs' = [procs EXCEPT ![h] = Idle]
    /\ UNCHANGED <<pending_commands, queued, delivered, app, devices, evidence>>

NextConc ==
    \/ \E h \in Handlers, uid \in {"d1", "d2"}, sos \in ManualSos :
          /\ NumEvents + InFlight < MaxConcEvents
          /\ recv_begin(h, uid, sos)
    \/ \E h \in Handlers : recv_lookup(h)
    \/ \E h \in Handlers : recv_commit(h)

SpecConc == InitFleet /\ [][NextConc]_vars

\* ------------------------------------------------------------ iot_api
\* command_data; the timestamp is the number of the command among all queued
CommandData(command) ==
    [command |-> command,
     timestamp |-> 1 + SumLen(queued, CommandDevices)]

\* self.pending_commands[device_id].append(command_data), the key created
\* with an empty list when missing
Enqueue(pending, device_id, command_data) ==
    [pending EXCEPT ![device_id] =
        [has_key |-> TRUE, list |-> Append(@.list, command_data)]]

\* CommandSender.send_command
send_command(device_id, command) ==
    LET command_data == CommandData(command)
    IN /\ pending_commands' = Enqueue(pending_commands, device_id, command_data)
       /\ queued' = [queued EXCEPT ![device_id] = Append(@, command_data)]
       /\ last' = [op |-> "send_command", device_id |-> device_id,
                   commands |-> <<command_data>>, result |-> TRUE]
       /\ UNCHANGED <<delivered, app, devices, events, alerts, evidence, procs>>

\* A retrieval that forgets to clear the queue.
get_pending_commands_kept(device_id) ==
    LET commands == pending_commands[device_id].list
    IN /\ delivered' = [delivered EXCEPT ![device_id] = @ \o commands]
       /\ last' = [op |-> "get_pending_commands", device_id |-> device_id,
                   commands |-> commands, result |-> TRUE]
       /\ UNCHANGED <<pending_commands, queued, app, devices, events, alerts, evidence, procs>>

\* CommandSender.get_pending_commands
get_pending_commands(device_id) ==
    LET commands == IF pending_commands[device_id].has_key
                    THEN pending_commands[device_id].list ELSE <<>>
    IN /\ pending_commands' =
              IF pending_commands[device_id].has_key
              THEN [pending_commands EXCEPT ![device_id].list = <<>>]
              ELSE pending_commands
       /\ delivered' = [delivered EXCEPT ![device_id] = @ \o commands]
       /\ last' = [op |-> "get_pending_commands", device_id |-> device_id,
                   commands |-> commands, result |-> TRUE]
       /\ UNCHANGED <<queued, app, devices, events, alerts, evidence, procs>>

\* CommandSender.activate_emergency_mode: three send_command calls
activate_emergency_mode(device_id) ==
    LET n  == SumLen(queued, CommandDevices)
        c1 == [command |-> "activate_camera", timestamp |-> n + 1]
        c2 == [command |-> "activate_buzzer", timestamp |-> n + 2]
        c3 == [command |-> "stream_gps", timestamp |-> n + 3]
    IN /\ pending_commands' =
              Enqueue(Enqueue(Enqueue(pending_commands, device_id, c1), device_id, c2),
                      device_id, c3)
       /\ queued' = [queued EXCEPT ![device_id] = @ \o <<c1, c2, c3>>]
       /\ last' = [op |-> "activate_emergency_mode", device_id |-> device_id,
                   commands |-> <<c1, c2, c3>>, result |-> TRUE]
       /\ UNCHANGED <<delivered, app, devices, events, alerts, evidence, procs>>

NextCommands ==
    \/ \E d \in CommandDevices, c \in Commands :
          /\ SumLen(queued, CommandDevices) + 1 <= MaxCommands
          /\ send_command(d, c)
    \/ \E d \in CommandDevices : get_pending_commands(d)
    \/ \E d \in CommandDevices :
          /\ SumLen(queued, CommandDevices) + 3 <= MaxCommands
          /\ activate_emergency_mode(d)
SpecCommands == Init /\ [][NextCommands]_vars

\* ------------------------------------------------------ the /api/alerts routes
\* backend/api keeps alerts with lower-case statuses, 'active' being the open
\* one, and changes them through one route per transition.
Users == {[id |-> 1, role |-> "user"], [id |-> 2, role |-> "police"],
          [id |-> 3, role |-> "guardian"]}
AlertTypes == {"ai_detected", "manual_trigger", "panic"}

\* BaseModel.save(): add the row to the session and commit.
Save(rows, row) == Append(rows, row)

ApiLast(op, code, user, alert_id) ==
    [NoLast EXCEPT !.op = op, !.code = code, !.role = user.role, !.alert_id = alert_id]

\* POST /api/alerts/trigger, the device found by its token
trigger_alert(d, alert_type) ==
    IF alert_type \notin {"ai_detected", "manual_trigger"}
    THEN /\ last' = [NoLast EXCEPT !.op = "trigger_alert", !.code = 400]
         /\ UNCHANGED <<pending_commands, queued, delivered, app, devices, events, alerts, evidence, procs>>
    ELSE /\ alerts' = Save(alerts, [device_id |-> d, user_id |-> devices[d].user_id,
                                    alert_type |-> alert_type, status |-> "active",
                                    acknowledged_by |-> None, resolved_by |-> None])
         /\ devices' = [devices EXCEPT ![d].status = "alert"]
         /\ last' = [NoLast EXCEPT !.op = "trigger_alert", !.code = 201, !.device_id = d,
                                   !.manual_sos = (alert_type = "manual_trigger"),
                                   !.alert_triggered = TRUE, !.created = Len(alerts) + 1]
         /\ UNCHANGED <<pending_commands, queued, delivered, app, events, evidence, procs>>

\* Alert.acknowledge
acknowledge(alert, user_id) ==
    [alert EXCEPT !.status = "acknowledged", !.acknowledged_by = user_id]

\* Alert.resolve
resolve(alert, user_id) ==
    [alert EXCEPT !.status = "resolved", !.resolved_by = user_id]

\* Alert.mark_false_alarm
false_alarm(alert, user_id) ==
    [alert EXCEPT !.status = "false_alarm", !.resolved_by = user_id]

\* POST /api/alerts/<alert_id>/acknowledge
acknowledge_alert(alert_id, user) ==
    /\ UNCHANGED <<pending_commands, queued, delivered, app, devices, events, evidence, procs>>
    /\ IF user.role \notin {"police", "guardian"}
       THEN last' = ApiLast("acknowledge_alert", 403, user, 0) /\ UNCHANGED alerts
       ELSE IF alert_id \notin 1..Len(alerts)
       THEN last' = ApiLast("acknowledge_alert", 404, user, 0) /\ UNCHANGED alerts
       ELSE /\ alerts' = [alerts EXCEPT ![alert_id] = acknowledge(@, user.id)]
            /\ last' = ApiLast("acknowledge_alert", 200, user, alert_id)

\* POST /api/alerts/<alert_id>/resolve
resolve_alert(alert_id, user) ==
    /\ UNCHANGED <<pending_commands, queued, delivered, app, devices, events, evidence, procs>>
    /\ IF user.role \notin {"police", "user"}
       THEN last' = ApiLast("resolve_alert", 403, user, 0) /\ UNCHANGED alerts
       ELSE IF alert_id \notin 1..Len(alerts)
       THEN last' = ApiLast("resolve_alert", 404, user, 0) /\ UNCHANGED alerts
       ELSE /\ alerts' = [alerts EXCEPT ![alert_id] = resolve(@, user.id)]
            /\ last' = ApiLast("resolve_alert", 200, user, alert_id)

\* POST /api/alerts/<alert_id>/false-alarm
mark_false_alarm(alert_id, user) ==
    /\ UNCHANGED <<pending_commands, queued, delivered, app, devices, events, evidence, procs>>
    /\ IF alert_id \notin 1..Len(alerts)
       THEN last' = ApiLast("mark_false_alarm", 404, user, 0) /\ UNCHANGED alerts
       ELSE IF alerts[alert_id].user_id # user.id
       THEN last' = ApiLast("mark_false_alarm", 403, user, 0) /\ UNCHANGED alerts
       ELSE /\ alerts' = [alerts EXCEPT ![alert_id] = false_alarm(@, user.id)]
            /\ last' = ApiLast("mark_false_alarm", 200, user, alert_id)

InitApi ==
    /\ app = "api"
    /\ devices = <<[device_uid |-> "d1", user_id |-> 1, status |-> "online"]>>
    /\ events = <<0>>
    /\ alerts = <<>>
    /\ evidence = <<>>
    /\ procs = [h \in Handlers |-> Idle]
    /\ last = NoLast
    /\ InitSender

NextApi ==
    \/ \E alert_type \in AlertTypes :
          trigger_alert(1, alert_type) /\ Len(alerts') <= MaxAlerts
    \/ \E id \in 1..MaxAlerts, user \in Users : acknowledge_alert(id, user)
    \/ \E id \in 1..MaxAlerts, user \in Users : resolve_alert(id, user)
    \/ \E id \in 1..MaxAlerts, user \in Users : mark_false_alarm(id, user)

SpecApi == InitApi /\ [][NextApi]_vars

\* ------------------------------------------------------------------- claims
NewAlertsOf(d) == {i \in 1..Len(alerts) : alerts[i].device_id = d /\ alerts[i].status = "NEW"}

\* C1: in every reachable state each device has at most one alert whose status
\* is NEW.
C1_AtMostOneNewPerDevice ==
    \A d \in 1..Len(devices) : Cardinality(NewAlertsOf(d)) <= 1

\* C2: after two or more qualifying events answered one after another for the
\* same device, with no status update in between, exactly one NEW alert exists
\* for that device.
C2_ExactlyOneNewAfterStreak ==
    (last.op = "receive_event" /\ last.code = 200 /\ last.streak >= 2)
        => Cardinality(NewAlertsOf(last.device_id)) = 1

C11_SeverityHighFromPointEight ==
    (last.op = "receive_event" /\ last.created # 0)
        => alerts[last.created].severity =
               IF last.distress_score >= 480 THEN "HIGH" ELSE "MEDIUM"

C13_FailedAudioVitalsStillDetect ==
    (last.op = "receive_event" /\ last.code = 200 /\ last.ai_failed
        /\ ~last.manual_sos /\ last.heart_rate = 130)
        => last.alert_triggered

C16_CombinedIsLabelTimesConfidenceAverage ==
    (last.op = "analyze_multimodal" /\ last.result.modalities_used # {})
        => LET r      == last.result
               audio  == IF r.audio_analysis.prediction = 1
                         THEN r.audio_analysis.confidence * 10 ELSE 0
               physio == r.physiological_analysis.combined_score * 6
           IN r.combined_score =
                  IF r.modalities_used = {"audio", "physiological"}
                  THEN 6 * audio + 4 * physio
                  ELSE IF r.modalities_used = {"audio"} THEN 10 * audio
                  ELSE 10 * physio

\* C17: without a manual trigger stress is detected exactly when the combined
\* score is at least 0.5; a score of exactly 0.5 is a detection and creates
\* an alert when the device has no open one.
C17_DetectedFromPointFive ==
    (last.op = "receive_event" /\ last.code = 200 /\ ~last.manual_sos)
        => /\ last.alert_triggered <=> last.distress_score >= 300
           /\ (last.distress_score >= 300 /\ last.existing = 0) => last.created # 0

\* C18: for a heart rate in [60, 100] and a temperature in [36.1, 37.2] both
\* signals are normal and the physiological score is 0; an event with such
\* vitals, no stressed audio and no manual trigger detects no stress and
\* creates no alert.
C18_NormalVitalsScoreZero ==
    /\ (/\ last.op = "analyze_multimodal"
        /\ last.heart_rate \in 60..100 /\ last.temperature \in 361..372)
           => LET p == last.result.physiological_analysis
              IN /\ p.present
                 /\ p.heart_rate.stress_level = "normal" /\ ~p.heart_rate.is_abnormal
                 /\ p.temperature.stress_level = "normal" /\ ~p.temperature.is_abnormal
                 /\ p.combined_score = 0 /\ ~p.stress_detected
    /\ (/\ last.op = "receive_event" /\ last.code = 200 /\ ~last.manual_sos
        /\ last.heart_rate \in 60..100 /\ last.temperature \in 361..372
        /\ last.ai_label # "stressed")
           => ~last.alert_triggered /\ last.created = 0

C18_Witness ==
    /\ last.op = "analyze_multimodal"
    /\ last.heart_rate = 100 /\ last.temperature = 372
    /\ last.result.physiological_analysis.combined_score = 0

\* C19: the heart-rate level (in tenths) is 0 below 60 and from 60 to 100, the
\* linear ramp (hr - 100)/10 between 100 and 110, and 1 with is_abnormal above
\* 110; the status is normal from 60 to 100.
C19_HeartRateLevelIsRamp ==
    (last.op = "analyze_multimodal" /\ last.result.physiological_analysis.present)
        => LET hr == last.heart_rate
               h  == last.result.physiological_analysis.heart_rate
           IN /\ h.score = IF hr <= 100 THEN 0
                            ELSE IF hr <= 110 THEN hr - 100 ELSE 10
              /\ hr > 110 => h.is_abnormal
              /\ hr \in 60..100 => h.stress_level = "normal"

\* C20: from one analysis to the next, with the temperature unchanged and the
\* heart rate raised from a value at or above 60, the heart-rate level and the
\* combined physiological score do not drop; likewise with the heart rate
\* unchanged and the temperature raised from a value at or above 36.1. The
\* score of an event does not drop either when its heart rate or temperature
\* is replaced by a higher one.
C20_MonotoneAboveNormalBand ==
  [][
    LET p  == last.result.physiological_analysis
        pn == last'.result.physiological_analysis
    IN /\ (/\ last.op = "analyze_multimodal" /\ last'.op = "analyze_multimodal"
           /\ p.present /\ pn.present
           /\ last'.temperature = last.temperature
           /\ last.heart_rate >= heart_rate_normal_min
           /\ last'.heart_rate >= last.heart_rate)
              => /\ pn.heart_rate.score >= p.heart_rate.score
                 /\ pn.combined_score >= p.combined_score
       /\ (/\ last.op = "analyze_multimodal" /\ last'.op = "analyze_multimodal"
           /\ p.present /\ pn.present
           /\ last'.heart_rate = last.heart_rate
           /\ last.temperature >= temperature_normal_min
           /\ last'.temperature >= last.temperature)
              => /\ pn.temperature.score >= p.temperature.score
                 /\ pn.combined_score >= p.combined_score
       /\ (last'.op = "receive_event" /\ last'.code = 200)
              => LET ai == [label |-> last'.ai_label, confidence |-> last'.ai_confidence]
                 IN /\ \A hr \in FusionHeartRates \ {None} :
                          hr >= last'.heart_rate =>
                              DistressScore(app, ai, hr, last'.temperature)
                                  >= last'.distress_score
                    /\ \A temp \in FusionTemperatures \ {None} :
                          temp >= last'.temperature =>
                              DistressScore(app, ai, last'.heart_rate, temp)
                                  >= last'.distress_score
  ]_vars

C20_Witness ==
    /\ last.op = "analyze_multimodal"
    /\ last.heart_rate = 130 /\ last.temperature = 386
    /\ last.result.physiological_analysis.heart_rate.score = 10
    /\ last.result.physiological_analysis.combined_score = 92

\* C21: a heart rate below 0 or above 220, or a temperature below 30 or above
\* 45, is rejected: it gets no score and contributes neither to the combined
\* score nor to the decision. The detector given only such readings uses no
\* physiological modality; the score and decision of an event are those of the
\* same event without the invalid readings.
C21_InvalidReadingsRejected ==
    LET badHr(hr)  == hr # None /\ (hr < 0 \/ hr > 220)
        badT(temp) == temp # None /\ temp # 0 /\ (temp < 300 \/ temp > 450)
    IN /\ (/\ last.op = "analyze_multimodal"
           /\ badHr(last.heart_rate) /\ badT(last.temperature))
              => /\ "physiological" \notin last.result.modalities_used
                 /\ last.result.combined_score =
                        MultimodalResults(last.audio, None, None).combined_score
       /\ (/\ last.op = "receive_event" /\ last.code = 200
           /\ badHr(last.heart_rate) \/ badT(last.temperature))
              => LET ai == [label |-> last.ai_label, confidence |-> last.ai_confidence]
                     valid == DistressScore(app, ai,
                                  IF badHr(last.heart_rate) THEN 0 ELSE last.heart_rate,
                                  IF badT(last.temperature) THEN 0 ELSE last.temperature)
                 IN /\ last.distress_score = valid
                    /\ last.alert_triggered = IsStressed(valid, last.manual_sos)

\* C22: when only one of heart rate and temperature is given, the
\* physiological modality is still used and its combined score (hundredths)
\* is the level (tenths) of the one signal given, with weight 1.
C22_SingleSignalStillScored ==
    (/\ last.op = "analyze_multimodal"
     /\ (last.heart_rate = None) # (last.temperature = None))
        => /\ "physiological" \in last.result.modalities_used
           /\ last.result.physiological_analysis.combined_score =
                  IF last.heart_rate # None
                  THEN 10 * analyze_heart_rate(last.heart_rate).score
                  ELSE 10 * analyze_temperature(last.temperature).score

\* C23: events of different devices are independent, in any order and
\* interleaved: the commit of an event for device e leaves every existing
\* alert and the sensor events of every other device as they were, an alert it
\* adds belongs to e, and whether it adds one depends on the alerts of e only
\* (a qualifying event adds an alert unless e itself has a NEW one).
C23_DevicesIndependent ==
  [][
    (events' # events /\ last'.op = "receive_event" /\ last'.code = 200)
        => LET e == last'.device_id
           IN /\ \A d \in 1..Len(devices) : d # e => events'[d] = events[d]
              /\ events'[e] = events[e] + 1
              /\ \A i \in 1..Len(alerts) : alerts'[i] = alerts[i]
              /\ Len(alerts') = Len(alerts) + (IF last'.created # 0 THEN 1 ELSE 0)
              /\ last'.created # 0 =>
                     /\ last'.created = Len(alerts')
                     /\ alerts'[last'.created].device_id = e
              /\ (last'.alert_triggered /\ NewAlertsOf(e) = {}) => last'.created # 0
              /\ ~last'.alert_triggered => last'.created = 0
  ]_vars

C23_Witness ==
    /\ last.op = "receive_event" /\ last.created # 0
    /\ \E h \in Handlers :
          /\ procs[h].pc = "looked" /\ procs[h].d # last.device_id
          /\ procs[h].existing = 0

\* C24: a status update by a caller whose role is neither POLICE nor ADMIN is
\* answered 403 and changes nothing stored; one by POLICE either finds no such
\* alert (404, nothing changed) or is answered 200 and leaves the alert with
\* the requested status.
C24_OnlyPoliceOrAdminUpdate ==
  [][
    last'.op = "update_status"
        => /\ last'.role \notin {"POLICE", "ADMIN"} =>
                  /\ last'.code = 403
                  /\ UNCHANGED <<devices, events, alerts, evidence>>
           /\ last'.role = "POLICE" =>
                  /\ last'.code \in {200, 404}
                  /\ last'.code = 404 => UNCHANGED <<devices, events, alerts, evidence>>
                  /\ (last'.code = 200 /\ last'.status # "absent") =>
                         /\ alerts'[last'.alert_id].status = last'.status
                         /\ \A i \in 1..Len(alerts) : i # last'.alert_id => alerts'[i] = alerts[i]
  ]_vars

C24_Witness ==
    /\ last.op = "update_status" /\ last.role = "GUARDIAN" /\ last.code = 403
    /\ \E i \in 1..Len(alerts) : alerts[i].status = "NEW"

\* C25: every event answered 200 adds exactly one sensor event to its device
\* and none to any other, whether it triggers, creates an alert or joins an
\* open one; an event for an unregistered device_uid is answered 404 and adds
\* no sensor event and no alert.
C25_OneSensorEventPerAcceptedEvent ==
  [][
    last'.op = "receive_event"
        => /\ last'.code = 200 =>
                  /\ events'[last'.device_id] = events[last'.device_id] + 1
                  /\ \A d \in 1..Len(devices) :
                         d # last'.device_id => events'[d] = events[d]
           /\ last'.device_id = 0 =>
                  /\ last'.code = 404
                  /\ UNCHANGED <<devices, events, alerts, evidence>>
           /\ last'.code # 200 => UNCHANGED <<events, alerts>>
  ]_vars

C25_Witness ==
    /\ last.op = "receive_event" /\ last.code = 200
    /\ last.alert_triggered /\ last.existing # 0 /\ last.created = 0
    /\ events[last.device_id] = 2

\* C26: an event that carries both lat and lng leaves the device's last known
\* location at exactly those coordinates, whatever their value (0 included);
\* an event that lacks either one leaves the location as it was.
C26_LocationFollowsEvent ==
  [][
    (events' # events /\ last'.op = "receive_event" /\ last'.code = 200)
        => LET d == last'.device_id
           IN IF last'.lat # None /\ last'.lng # None
              THEN /\ devices'[d].last_lat = last'.lat
                   /\ devices'[d].last_lng = last'.lng
              ELSE /\ devices'[d].last_lat = devices[d].last_lat
                   /\ devices'[d].last_lng = devices[d].last_lng
  ]_vars

C28_OpenAlertNeverUpgraded ==
  [][
    (/\ last'.op = "receive_event" /\ last'.device_id # 0
     /\ last'.manual_sos \/ last'.distress_score > 300
     /\ NewAlertsOf(last'.device_id) # {})
        => /\ alerts' = alerts
           /\ last'.created = 0
           /\ last'.code = 200
           /\ last'.alert_triggered
  ]_vars

\* C29: deduplication looks at status NEW only: when the alerts of a device
\* have all left NEW, the next qualifying event for it (manual trigger or
\* score above 0.5) adds exactly one alert, with status NEW, for that device
\* and changes no other alert.
C29_NewAlertOnceOpenOneLeftNew ==
  [][
    (/\ last'.op = "receive_event" /\ last'.device_id # 0
     /\ last'.manual_sos \/ last'.distress_score > 300
     /\ NewAlertsOf(last'.device_id) = {}
     /\ \E i \in 1..Len(alerts) : alerts[i].device_id = last'.device_id)
        => /\ Len(alerts') = Len(alerts) + 1
           /\ alerts'[Len(alerts')].status = "NEW"
           /\ alerts'[Len(alerts')].device_id = last'.device_id
           /\ \A i \in 1..Len(alerts) : alerts'[i] = alerts[i]
  ]_vars

\* C30: the command queue of a device delivers each queued command exactly
\* once and in the order sent: what was queued for a device is what has been
\* returned for it followed by what is still pending; a retrieval returns the
\* whole pending list and leaves the queue empty (so a second one returns
\* nothing); no operation on one device changes another device's queue; and
\* activate_emergency_mode appends activate_camera, activate_buzzer,
\* stream_gps in that order.
C30_CommandsExactlyOnceFifo ==
  [][
    LET e == last'.device_id
        Names(cs) == [i \in 1..Len(cs) |-> cs[i].command]
    IN /\ \A d \in CommandDevices :
             queued'[d] = delivered'[d] \o pending_commands'[d].list
       /\ last'.op \in {"send_command", "get_pending_commands", "activate_emergency_mode"}
             => \A d \in CommandDevices :
                    d # e => pending_commands'[d].list = pending_commands[d].list
       /\ last'.op = "get_pending_commands"
             => /\ last'.commands = pending_commands[e].list
                /\ pending_commands'[e].list = <<>>
       /\ last'.op = "send_command"
             => pending_commands'[e].list = pending_commands[e].list \o last'.commands
       /\ last'.op = "activate_emergency_mode"
             => /\ pending_commands'[e].list = pending_commands[e].list \o last'.commands
                /\ Names(last'.commands) =
                       <<"activate_camera", "activate_buzzer", "stream_gps">>
  ]_vars

C30_Witness ==
    /\ last.op = "get_pending_commands" /\ Len(last.commands) = 4
    /\ last.commands[1].command = "fetch_gps"
    /\ last.commands[2].command = "activate_camera"
    /\ last.commands[4].command = "stream_gps"
    /\ pending_commands[last.device_id].list = <<>>

\* C4: an event of a registered device with the manual trigger set ends with
\* alert_triggered = true, and when the device had no NEW alert the alert created
\* has status NEW, reason MANUAL_SOS and severity at least MEDIUM.
C4_ManualSosAlwaysTriggers ==
    (last.op = "receive_event" /\ last.device_id # 0 /\ last.manual_sos)
        => /\ last.code = 200
           /\ last.alert_triggered
           /\ last.existing = 0 =>
                  /\ last.created \in 1..Len(alerts)
                  /\ alerts[last.created].device_id = last.device_id
                  /\ alerts[last.created].status = "NEW"
                  /\ alerts[last.created].reason = "MANUAL_SOS"
                  /\ alerts[last.created].severity \in {"MEDIUM", "HIGH"}

\* The life-cycle name of a stored status, whichever variant stored it.
Phase(status) ==
    CASE status = "active" -> "NEW"
      [] status = "acknowledged" -> "ACKNOWLEDGED"
      [] status = "resolved" -> "RESOLVED"
      [] status = "false_alarm" -> "FALSE_ALARM"
      [] OTHER -> status

\* C5: a status transition request that is answered 200 is acknowledge, resolve
\* or false-alarm of a NEW alert, or resolve of an ACKNOWLEDGED one; every other
\* attempt is rejected.
C5_OnlyLegalTransitionsAccepted ==
    [][(last'.code = 200 /\ last'.alert_id \in 1..Len(alerts)
          /\ last'.op \in {"acknowledge_alert", "resolve_alert", "mark_false_alarm",
                            "update_status"})
          => LET from == Phase(alerts[last'.alert_id].status)
                 to   == Phase(alerts'[last'.alert_id].status)
             IN \/ from = "NEW" /\ to \in {"ACKNOWLEDGED", "RESOLVED", "FALSE_ALARM"}
                \/ from = "ACKNOWLEDGED" /\ to = "RESOLVED"]_vars

\* C6: once an alert is RESOLVED or FALSE_ALARM no later operation changes its
\* status or any other of its fields.
C6_TerminalAlertsFrozen ==
    [][\A i \in 1..Len(alerts) :
          alerts[i].status \in {"RESOLVED", "FALSE_ALARM"}
              => (i <= Len(alerts') /\ alerts'[i] = alerts[i])]_vars

C8_ManualSosSurvivesFailures ==
    (last.op = "receive_event" /\ last.device_id # 0 /\ last.manual_sos
        /\ (last.ai_failed \/ last.save_failed))
        => (last.alert_triggered /\ NewAlertsOf(last.device_id) # {})

\* C9: for an event with the manual trigger set no feature extraction or
\* classifier inference step is executed.
C9_NoModelCallOnManualSos ==
    (last.op = "receive_event" /\ last.manual_sos) => ~last.model_called

\* C10: a qualifying event for a device that already has a NEW alert creates no
\* second alert, and its saved audio is associated with the existing NEW alert.
C10_EvidenceJoinsExistingAlert ==
    (last.op = "receive_event" /\ last.code = 200 /\ last.alert_triggered
        /\ last.existing # 0)
        => /\ last.created = 0
           /\ last.has_audio =>
                  \E k \in 1..Len(evidence) :
                      /\ evidence[k].alert_id = last.existing
                      /\ evidence[k].file_path = last.audio_filename

====
